---- MODULE Spec2Model ----
(***************************************************************************)
(* LazyLibraryLoader (assets/js/lazy-loader.js) and the WeakMap-based      *)
(* EventListenerManager (performance-utils.js), as state machines.         *)
(*                                                                         *)
(* A step of the model is one run-to-completion task of the browser event  *)
(* loop: a call made by application code, a script's load or error event,  *)
(* an idle callback, an event dispatched on an element.                    *)
(***************************************************************************)
EXTENDS Integers, Sequences, FiniteSets, TLC

(***************************************************************************)
(* Bounds of the model.                                                    *)
(***************************************************************************)
MaxCalls == 3        \* loadScript calls made in one behaviour
MaxScripts == 2      \* script elements injected in one behaviour
MaxListenerId == 2   \* add calls on elements made in one behaviour
MaxPreloads == 1     \* preload calls made in one behaviour
MaxWrapped == 4      \* calls of one wrapped function made in one behaviour
MaxRenders == 2      \* renderCanvas calls made in one behaviour
MaxDelta == 2        \* how far around each tier boundary the loan amounts go

(***************************************************************************)
(* Values held by the two Maps and by the window globals.                  *)
(*   Absent    : Map.has(name) is false                                    *)
(*   Sentinel  : the literal true                                          *)
(*   Undefined : undefined, the falsy result of a presence check           *)
(*   Handles   : library handles (truthy objects such as window.cv)        *)
(***************************************************************************)
Absent == -2
Sentinel == -1
Undefined == 0
Handles == {1}
Truthy(v) == v = Sentinel \/ v \in Handles

Names == {"opencv", "jspdf"}
CoreNames == {"opencv"}
Urls == {"/assets/js/opencv.js", "/assets/js/jspdf.umd.min.js"}
Methods == {"loadOpenCV", "loadJsPDF", "isLoaded", "unload", "preload", "missing", "undefined"}
CoreMethods == {"loadOpenCV"}
PreloadMethods == {"loadOpenCV", "isLoaded", "unload", "preload", "missing"}

VARIABLES
  loadedLibraries,   \* this.loadedLibraries: name -> value, Absent when no entry
  loadingPromises,   \* this.loadingPromises: name -> promise (script index), 0 when no entry
  scripts,           \* script elements appended to document.head, one promise each
  win,               \* the window global each presence check reads
  calls,             \* what the loadScript calls made so far observed and returned
  ncalls,            \* loadScript calls made so far
  idleQueue,         \* callbacks scheduled by preload and not yet run
  streak,            \* per name: the calls made since the last settlement or unload
  fulfilled,         \* per name: some call has fulfilled since the last unload
  preloads,          \* preload calls so far
  uncaught,          \* exceptions thrown out of idle callbacks
  preloadLog,        \* per method: preload calls made, and calls this[method]() made
                     \* by idle callbacks
  last               \* the step just taken

VARIABLES
  elementListeners,  \* this.elementListeners: element -> Map of key -> {event, handler, options}
  listenerId,        \* this.listenerId
  attached,          \* each element's own event listener list (the DOM's)
  detached,          \* triples taken off through the manager and not added again since
  lastEv             \* the manager call or event dispatch just made: hit tells whether
                     \* the call found the entry it names, fired counts each handler's runs

listenerVars == <<elementListeners, listenerId, attached, detached, lastEv>>

loaderVars == <<loadedLibraries, loadingPromises, scripts, win, calls, ncalls, idleQueue,
                streak, fulfilled, preloads, uncaught, preloadLog, last>>

VARIABLES
  thr,               \* one function wrapped by throttle: its closure, its pending timers
                     \* and the runs of func so far
  deb,               \* one function wrapped by debounce: its closure, the timers
                     \* pending for it and the runs of func so far
  raf,               \* one function wrapped by rafThrottle: its closure, the frames
                     \* requested for it and the runs of callback so far
  dom,               \* domCache: its Map, the document it queries, and what a cache
                     \* kept per method would hold (selRef, idRef)
  loan,              \* the last two calls of calculateInterestRate: argument and result
  cnv                \* loan-registration.js: the userData binding, the data objects,
                     \* local storage, and the images renderCanvas is waiting for

utilVars == <<thr, deb, raf, dom, loan, cnv>>

vars == <<loaderVars, listenerVars, utilVars>>

NoCall == [name |-> "", pre |-> FALSE, seen |-> Absent, wasLoaded |-> FALSE,
           tracked |-> 0, kind |-> "none", pid |-> 0, val |-> Absent]

\* since: the names unloaded with no loadScript call for them made since
NoStep == [op |-> "init", name |-> "", call |-> NoCall, script |-> 0, since |-> {}]

(***************************************************************************)
(* isLoaded(name): loadedLibraries.has(name).                              *)
(***************************************************************************)
IsLoadedTruthy(n) == loadedLibraries[n] = Sentinel \/ loadedLibraries[n] \in Handles

IsLoaded(n) == loadedLibraries[n] # Absent

(***************************************************************************)
(* checkFn(): the loaders' probes read one window global; a call without   *)
(* a probe passes hc = FALSE.                                              *)
(***************************************************************************)
CheckFn(n) == win[n]

(***************************************************************************)
(* The branch loadScript takes, lines 21-37 in order.                      *)
(***************************************************************************)
LoadBranchNoDedup(n, hc) ==
  IF hc /\ Truthy(CheckFn(n)) THEN "present"
  ELSE IF loadedLibraries[n] # Absent THEN "cached"
  ELSE "started"

LoadBranchCacheFirst(n, hc) ==
  IF loadedLibraries[n] # Absent THEN "cached"
  ELSE IF hc /\ Truthy(CheckFn(n)) THEN "present"
  ELSE IF loadingPromises[n] # 0 THEN "joined"
  ELSE "started"

LoadBranch(n, hc) ==
  IF hc /\ Truthy(CheckFn(n)) THEN "present"
  ELSE IF loadedLibraries[n] # Absent THEN "cached"
  ELSE IF loadingPromises[n] # 0 THEN "joined"
  ELSE "started"

(***************************************************************************)
(* The eventual outcome of a loadScript call: the value of an immediately  *)
(* resolved promise, or whatever the script's promise settles to.          *)
(***************************************************************************)
Settled(c) ==
  \/ c.kind \in {"present", "cached"}
  \/ c.kind \in {"joined", "started"} /\ scripts[c.pid].pstate # "pending"

Outcome(c) ==
  IF c.kind \in {"present", "cached"}
  THEN [state |-> "fulfilled", val |-> c.val, reason |-> <<>>]
  ELSE [state |-> scripts[c.pid].pstate, val |-> scripts[c.pid].val,
        reason |-> scripts[c.pid].reason]

(***************************************************************************)
(* The scripts injected for name n whose load or error event is still to   *)
(* come.                                                                   *)
(***************************************************************************)
Outstanding(n) ==
  {s \in 1..Len(scripts) : scripts[s].name = n /\ scripts[s].status = "pending"}

(***************************************************************************)
(* new Promise(...) of lines 37-55: the script element created and         *)
(* appended to document.head, with the closure it keeps.                   *)
(***************************************************************************)
NewScript(n, u, hc) ==
  [name |-> n, url |-> u, hc |-> hc, status |-> "pending",
   pstate |-> "pending", val |-> Absent, reason |-> <<>>]

(***************************************************************************)
(* What a caller of loadScript holds.  loadScript is declared async (line  *)
(* 19): every call makes a promise object of its own, and a return of the  *)
(* script's promise (lines 33 and 58) resolves that object with it; inner  *)
(* is 0 when the object is resolved with a value (lines 23 and 28).  k is  *)
(* the call's ordinal.                                                     *)
(***************************************************************************)
AsyncReturnInner(k, inner) ==
  [obj |-> IF inner = 0 THEN <<"call", k>> ELSE <<"script", inner>>, inner |-> inner]

AsyncReturn(k, inner) == [obj |-> <<"call", k>>, inner |-> inner]

(***************************************************************************)
(* The object the loadScript call just made returned (the call is the      *)
(* ncalls-th; last.script is the script promise it returned, if any).      *)
(***************************************************************************)
Returned == AsyncReturn(ncalls, last.script)

(***************************************************************************)
(* loadingPromises.set(name, promise), line 57, reached on the last branch *)
(* only.                                                                   *)
(***************************************************************************)
SetLoadingForgets(n, branch) == loadingPromises

SetLoading(n, branch) ==
  IF branch = "started"
  THEN [loadingPromises EXCEPT ![n] = Len(scripts) + 1]
  ELSE loadingPromises

(***************************************************************************)
(* loadScript(name, url, checkFn), lines 19-59.  pre is TRUE for the call  *)
(* made by a preload callback.                                             *)
(***************************************************************************)
DoLoadScript(n, u, hc, pre) ==
  LET branch == LoadBranch(n, hc)
      pid == IF branch = "started" THEN Len(scripts) + 1
             ELSE IF branch = "joined" THEN loadingPromises[n]
             ELSE 0
      val == IF branch = "present" THEN CheckFn(n)
             ELSE IF branch = "cached" THEN loadedLibraries[n]
             ELSE Absent
      call == [name |-> n, pre |-> pre,
               seen |-> IF hc THEN CheckFn(n) ELSE Absent,
               wasLoaded |-> IsLoaded(n),
               tracked |-> loadingPromises[n],
               kind |-> branch, pid |-> pid, val |-> val]
  IN
  /\ ncalls < MaxCalls
  /\ branch = "started" => Len(scripts) < MaxScripts
  /\ ncalls' = ncalls + 1
  /\ loadedLibraries' = IF branch = "present"
                        THEN [loadedLibraries EXCEPT ![n] = Sentinel]
                        ELSE loadedLibraries
  /\ scripts' = IF branch = "started"
                THEN Append(scripts, NewScript(n, u, hc))
                ELSE scripts
  /\ loadingPromises' = SetLoading(n, branch)
  /\ calls' = calls \cup {call}
  /\ streak' = [streak EXCEPT ![n] = IF branch \in {"present", "cached"} THEN {}
                                     ELSE @ \cup {call}]
  /\ fulfilled' = [fulfilled EXCEPT ![n] = @ \/ branch \in {"present", "cached"}]
  /\ last' = [op |-> "loadScript", name |-> n, call |-> call, script |-> pid,
              since |-> last.since \ {n}]

LoadScript(n, u, hc) ==
  /\ DoLoadScript(n, u, hc, FALSE)
  /\ UNCHANGED <<win, idleQueue, preloads, uncaught, preloadLog>>
  /\ UNCHANGED <<listenerVars, utilVars>>

(***************************************************************************)
(* script.onload, lines 42-47.                                             *)
(***************************************************************************)
OnLoadLib(s) == IF scripts[s].hc THEN CheckFn(scripts[s].name) ELSE Sentinel

OnLoadLoadedTrue(s) == [loadedLibraries EXCEPT ![scripts[s].name] = Sentinel]

OnLoadLoaded(s) == [loadedLibraries EXCEPT ![scripts[s].name] = OnLoadLib(s)]

OnLoadLoadingKeeps(s) == loadingPromises

OnLoadLoading(s) == [loadingPromises EXCEPT ![scripts[s].name] = 0]

OnLoadPromiseUnresolved(s) == [scripts[s] EXCEPT !.status = "loaded"]

OnLoadPromise(s) ==
  [scripts[s] EXCEPT !.status = "loaded", !.pstate = "fulfilled", !.val = OnLoadLib(s)]

ScriptLoad(s) ==
  /\ scripts[s].status = "pending"
  /\ loadedLibraries' = OnLoadLoaded(s)
  /\ loadingPromises' = OnLoadLoading(s)
  /\ scripts' = [scripts EXCEPT ![s] = OnLoadPromise(s)]
  /\ streak' = [streak EXCEPT ![scripts[s].name] = {}]
  /\ fulfilled' = [fulfilled EXCEPT ![scripts[s].name] = TRUE]
  /\ last' = [op |-> "load", name |-> scripts[s].name, call |-> NoCall, script |-> s,
              since |-> last.since]
  /\ UNCHANGED <<win, calls, ncalls, idleQueue, preloads, uncaught, preloadLog>>
  /\ UNCHANGED <<listenerVars, utilVars>>

(***************************************************************************)
(* script.onerror, lines 49-52.                                            *)
(***************************************************************************)
OnErrorLoadingKeeps(s) == loadingPromises

OnErrorLoading(s) == [loadingPromises EXCEPT ![scripts[s].name] = 0]

ErrorReasonNameOnly(s) == <<scripts[s].name, "">>

ErrorReason(s) == <<scripts[s].name, scripts[s].url>>

OnErrorPromise(s) ==
  [scripts[s] EXCEPT !.status = "error", !.pstate = "rejected", !.reason = ErrorReason(s)]

ScriptError(s) ==
  /\ scripts[s].status = "pending"
  /\ loadingPromises' = OnErrorLoading(s)
  /\ scripts' = [scripts EXCEPT ![s] = OnErrorPromise(s)]
  /\ streak' = [streak EXCEPT ![scripts[s].name] = {}]
  /\ last' = [op |-> "error", name |-> scripts[s].name, call |-> NoCall, script |-> s,
              since |-> last.since]
  /\ UNCHANGED <<loadedLibraries, win, calls, ncalls, idleQueue, fulfilled, preloads,
                 uncaught, preloadLog>>
  /\ UNCHANGED <<listenerVars, utilVars>>

(***************************************************************************)
(* isLoaded(name), lines 135-137, called by application code.              *)
(***************************************************************************)
IsLoadedCallRecords(n) ==
  /\ loadedLibraries' = [loadedLibraries EXCEPT ![n] = IF @ = Absent THEN Undefined ELSE @]
  /\ last' = [op |-> "isLoaded", name |-> n, call |-> NoCall, script |-> 0,
              since |-> last.since]
  /\ UNCHANGED <<loadingPromises, scripts, win, calls, ncalls, idleQueue,
                 streak, fulfilled, preloads, uncaught, preloadLog>>
  /\ UNCHANGED <<listenerVars, utilVars>>

IsLoadedCall(n) ==
  /\ last' = [op |-> "isLoaded", name |-> n, call |-> NoCall, script |-> 0,
              since |-> last.since]
  /\ UNCHANGED <<loadedLibraries, loadingPromises, scripts, win, calls, ncalls, idleQueue,
                 streak, fulfilled, preloads, uncaught, preloadLog>>
  /\ UNCHANGED <<listenerVars, utilVars>>

(***************************************************************************)
(* unload(name), lines 144-147.                                            *)
(***************************************************************************)
UnloadLoadedClear(n) == [m \in Names |-> Absent]

UnloadLoaded(n) == [loadedLibraries EXCEPT ![n] = Absent]

UnloadLoading(n) == [loadingPromises EXCEPT ![n] = 0]

Unload(n) ==
  /\ loadedLibraries' = UnloadLoaded(n)
  /\ loadingPromises' = UnloadLoading(n)
  /\ streak' = [streak EXCEPT ![n] = {}]
  /\ fulfilled' = [fulfilled EXCEPT ![n] = FALSE]
  /\ last' = [op |-> "unload", name |-> n, call |-> NoCall, script |-> 0,
              since |-> last.since \cup {n}]
  /\ UNCHANGED <<scripts, win, calls, ncalls, idleQueue, preloads, uncaught, preloadLog>>
  /\ UNCHANGED <<listenerVars, utilVars>>

(***************************************************************************)
(* preload(method), lines 114-128: schedules the callback `load`.          *)
(***************************************************************************)
PreloadScheduleBoth(m) == Append(Append(idleQueue, m), m)

PreloadSchedule(m) == Append(idleQueue, m)

Preload(m) ==
  /\ preloads < MaxPreloads
  /\ preloads' = preloads + 1
  /\ idleQueue' = PreloadSchedule(m)
  /\ preloadLog' = [preloadLog EXCEPT ![m].asked = @ + 1]
  /\ last' = [op |-> "preload", name |-> m, call |-> NoCall, script |-> 0,
              since |-> last.since]
  /\ UNCHANGED <<loadedLibraries, loadingPromises, scripts, win, calls, ncalls, streak,
                 fulfilled, uncaught>>
  /\ UNCHANGED <<listenerVars, utilVars>>

(***************************************************************************)
(* The named loaders, lines 65-107 (two of the four).                      *)
(***************************************************************************)
LoaderName(m) == IF m = "loadOpenCV" THEN "opencv" ELSE "jspdf"

LoaderUrl(m) ==
  IF m = "loadOpenCV" THEN "/assets/js/opencv.js" ELSE "/assets/js/jspdf.umd.min.js"

IsLoader(m) == m \in {"loadOpenCV", "loadJsPDF"}

IsFunction(m) == IsLoader(m) \/ m \in {"isLoaded", "unload", "preload"}

\* this[method]() of a method that is no loader returns no promise (false from
\* isLoaded, undefined from unload and preload), and .catch of it throws
CatchThrows(m) == IsFunction(m) /\ ~IsLoader(m)

\* this.preload() called without an argument schedules a callback for the
\* key undefined; this.isLoaded() and this.unload() look up and delete the
\* key undefined, which neither Map holds
IdleRunSchedules(m, queue) == IF m = "preload" THEN Append(queue, "undefined") ELSE queue

Without(q, i) == [j \in 1..(Len(q) - 1) |-> IF j < i THEN q[j] ELSE q[j + 1]]

(***************************************************************************)
(* The callback `load` of preload, lines 115-121, run by                   *)
(* requestIdleCallback or by the fallback timer.                           *)
(***************************************************************************)
IdleRunLoader(i) ==
  /\ i \in 1..Len(idleQueue)
  /\ IsLoader(idleQueue[i])
  /\ DoLoadScript(LoaderName(idleQueue[i]), LoaderUrl(idleQueue[i]), TRUE, TRUE)
  /\ idleQueue' = Without(idleQueue, i)
  /\ preloadLog' = [preloadLog EXCEPT ![idleQueue[i]].run = @ + 1]
  /\ UNCHANGED <<win, preloads, uncaught>>
  /\ UNCHANGED <<listenerVars, utilVars>>

IdleRunOther(i) ==
  /\ i \in 1..Len(idleQueue)
  /\ ~IsLoader(idleQueue[i])
  /\ idleQueue' = IdleRunSchedules(idleQueue[i], Without(idleQueue, i))
  /\ uncaught' = IF CatchThrows(idleQueue[i]) THEN uncaught + 1 ELSE uncaught
  /\ preloadLog' = [preloadLog EXCEPT
                     ![idleQueue[i]].run = IF IsFunction(idleQueue[i]) THEN @ + 1 ELSE @,
                     !["undefined"].asked = IF idleQueue[i] = "preload" THEN @ + 1 ELSE @]
  /\ last' = [op |-> "idle", name |-> idleQueue[i], call |-> NoCall, script |-> 0,
              since |-> last.since]
  /\ UNCHANGED <<loadedLibraries, loadingPromises, scripts, win, calls, ncalls, streak, fulfilled,
                 preloads>>
  /\ UNCHANGED <<listenerVars, utilVars>>

(***************************************************************************)
(* The environment assigns or clears the global a presence check reads:    *)
(* a script that ran, or a library the page loaded by other means.         *)
(***************************************************************************)
SetGlobal(n, v) ==
  /\ win[n] # v
  /\ win' = [win EXCEPT ![n] = v]
  /\ last' = [op |-> "global", name |-> n, call |-> NoCall, script |-> 0,
              since |-> last.since]
  /\ UNCHANGED <<loadedLibraries, loadingPromises, scripts, calls, ncalls, idleQueue,
                 streak, fulfilled, preloads, uncaught, preloadLog>>
  /\ UNCHANGED <<listenerVars, utilVars>>

(***************************************************************************)
(* constructor, lines 7-10, on a page that has defined no library global   *)
(* yet (SetGlobal defines one before any call where the page has).         *)
(***************************************************************************)
LoaderInit ==
  /\ loadedLibraries = [n \in Names |-> Absent]
  /\ loadingPromises = [n \in Names |-> 0]
  /\ scripts = <<>>
  /\ win = [n \in Names |-> Undefined]
  /\ calls = {}
  /\ ncalls = 0
  /\ idleQueue = <<>>
  /\ streak = [n \in Names |-> {}]
  /\ fulfilled = [n \in Names |-> FALSE]
  /\ preloads = 0
  /\ uncaught = 0
  /\ preloadLog = [m \in Methods |-> [asked |-> 0, run |-> 0]]
  /\ last = NoStep

LoaderNext ==
  \/ \E n \in CoreNames, u \in Urls, hc \in BOOLEAN : LoadScript(n, u, hc)
  \/ \E s \in 1..Len(scripts) : ScriptLoad(s)
  \/ \E s \in 1..Len(scripts) : ScriptError(s)
  \/ \E n \in CoreNames : Unload(n)
  \/ \E n \in CoreNames, v \in {Undefined} \cup Handles : SetGlobal(n, v)

(***************************************************************************)
(* loadOpenCV() / loadJsPDF() called by application code, lines 65-107:    *)
(* loadScript with the loader's name, url and presence check.              *)
(***************************************************************************)
LoaderCall(m) ==
  /\ DoLoadScript(LoaderName(m), LoaderUrl(m), TRUE, FALSE)
  /\ UNCHANGED <<win, idleQueue, preloads, uncaught, preloadLog>>
  /\ UNCHANGED <<listenerVars, utilVars>>

(***************************************************************************)
(* What the promise made by .catch(() => {}) at line 117 settles to: a     *)
(* rejection of the loader's promise is handled and becomes a fulfilment.  *)
(***************************************************************************)
PreloadCatchRethrows(c) == Outcome(c).state

PreloadCatch(c) ==
  IF Outcome(c).state = "rejected" THEN "fulfilled" ELSE Outcome(c).state

(***************************************************************************)
(* The loader with preloading: preload calls, the idle callbacks they      *)
(* schedule, and the named loaders called directly.  A loader call made by *)
(* a callback is the loadScript of LoaderSpec, where unload is exercised.  *)
(***************************************************************************)
PreloadNext ==
  \/ \E m \in PreloadMethods : Preload(m)
  \/ \E i \in 1..Len(idleQueue) : IdleRunLoader(i)
  \/ \E i \in 1..Len(idleQueue) : IdleRunOther(i)
  \/ \E m \in CoreMethods : LoaderCall(m)
  \/ \E s \in 1..Len(scripts) : ScriptLoad(s)
  \/ \E s \in 1..Len(scripts) : ScriptError(s)
  \/ \E n \in CoreNames, v \in {Undefined} \cup Handles : SetGlobal(n, v)

(***************************************************************************)
(* The loader with two libraries in use: both named loaders, the script    *)
(* events, and isLoaded and unload called for either name.                 *)
(***************************************************************************)
FrameNext ==
  \/ \E m \in {f \in Methods : IsLoader(f)} : LoaderCall(m)
  \/ \E s \in 1..Len(scripts) : ScriptLoad(s)
  \/ \E s \in 1..Len(scripts) : ScriptError(s)
  \/ \E n \in Names : IsLoadedCall(n)
  \/ \E n \in Names : Unload(n)
  \/ \E n \in CoreNames, v \in {Undefined} \cup Handles : SetGlobal(n, v)

(***************************************************************************)
(* The loader with the browser's side of the contract: every script        *)
(* element appended to document.head fires load or error in the end.       *)
(***************************************************************************)
ScriptSettles(s) ==
  /\ s \in 1..Len(scripts)
  /\ ScriptLoad(s) \/ ScriptError(s)

LiveNext ==
  \/ \E n \in CoreNames, u \in Urls, hc \in BOOLEAN : LoadScript(n, u, hc)
  \/ \E s \in 1..MaxScripts : ScriptSettles(s)
  \/ \E n \in CoreNames : Unload(n)

ScriptsSettle == \A s \in 1..MaxScripts : WF_vars(ScriptSettles(s))

(***************************************************************************)
(* EventListenerManager, the WeakMap-based class of performance-utils.js.  *)
(***************************************************************************)
Null == "null"
Elements == {"btn", "nav"}
CoreElements == {"btn"}
Events == {"click", "scroll"}
Handlers == {"onSave", "onToggle"}
Options == [capture : BOOLEAN, once : BOOLEAN]

NoMap == [has |-> FALSE, map |-> {}]
NoFired == [h \in Handlers |-> 0]
NoEvStep == [op |-> "init", el |-> Null, ev |-> "", hit |-> FALSE, fired |-> NoFired]

(***************************************************************************)
(* The element's side, as the DOM standard defines it: a listener is       *)
(* identified by type, callback and capture; adding one that is there is   *)
(* ignored; removing needs the same capture; a once listener is dropped    *)
(* after it has run; at the target, capture and bubble listeners all run.  *)
(***************************************************************************)
AddEventListener(list, ev, h, o) ==
  IF \E a \in list : a.event = ev /\ a.handler = h /\ a.capture = o.capture
  THEN list
  ELSE list \cup {[event |-> ev, handler |-> h, capture |-> o.capture, once |-> o.once]}

RemoveEventListener(list, ev, h, o) ==
  {a \in list : ~(a.event = ev /\ a.handler = h /\ a.capture = o.capture)}

DispatchFired(list, ev) ==
  [h \in Handlers |-> Cardinality({a \in list : a.event = ev /\ a.handler = h})]

DispatchKeeps(list, ev) == {a \in list : ~(a.event = ev /\ a.once)}

(***************************************************************************)
(* add(element, event, handler, options), lines 206-231.                   *)
(***************************************************************************)
AlreadyRegisteredByKey(listeners, ev, h) ==
  \E value \in listeners : value.key = <<ev, listenerId>>

AlreadyRegistered(listeners, ev, h) ==
  \E value \in listeners : value.event = ev /\ value.handler = h

(***************************************************************************)
(* this.listenerId after add has returned at line 207 for an absent        *)
(* element: the key is made, and the counter stepped, only at line 217.    *)
(***************************************************************************)
AddOnAbsentCounts == listenerId + 1

AddOnAbsent == listenerId

NewEntryDefaultOptions(ev, h, o) ==
  [key |-> <<ev, listenerId>>, event |-> ev, handler |-> h,
   options |-> [capture |-> FALSE, once |-> FALSE]]

NewEntry(ev, h, o) ==
  [key |-> <<ev, listenerId>>, event |-> ev, handler |-> h, options |-> o]

Add(el, ev, h, o) ==
  /\ IF el = Null
     THEN /\ listenerId' = AddOnAbsent
          /\ UNCHANGED <<elementListeners, attached, detached>>
     ELSE LET listeners == elementListeners[el].map IN
          /\ listenerId < MaxListenerId
          /\ listenerId' = listenerId + 1
          /\ IF AlreadyRegistered(listeners, ev, h)
             THEN /\ elementListeners' =
                       [elementListeners EXCEPT ![el] = [has |-> TRUE, map |-> listeners]]
                  /\ UNCHANGED <<attached, detached>>
             ELSE /\ attached' =
                       [attached EXCEPT ![el] = AddEventListener(@, ev, h, o)]
                  /\ elementListeners' =
                       [elementListeners EXCEPT
                          ![el] = [has |-> TRUE, map |-> listeners \cup {NewEntry(ev, h, o)}]]
                  /\ detached' = {d \in detached : ~(d.el = el /\ d.ev = ev /\ d.h = h)}
  /\ lastEv' = [op |-> "add", el |-> el, ev |-> "",
                hit |-> el # Null /\ AlreadyRegistered(elementListeners[el].map, ev, h),
                fired |-> NoFired]
  /\ UNCHANGED <<loaderVars, utilVars>>

(***************************************************************************)
(* remove(element, event, handler), lines 239-255.                         *)
(***************************************************************************)
RemoveOptionsDefault(value) == [capture |-> FALSE, once |-> FALSE]

RemoveOptions(value) == value.options

RECURSIVE DetachEach(_, _)
DetachEach(list, values) ==
  IF values = {} THEN list
  ELSE LET value == CHOOSE v \in values : TRUE IN
       DetachEach(RemoveEventListener(list, value.event, value.handler, RemoveOptions(value)),
                  values \ {value})

MatchingByEvent(listeners, ev, h) == {value \in listeners : value.event = ev}

Matching(listeners, ev, h) ==
  {value \in listeners : value.event = ev /\ value.handler = h}

Gone(el, values, by) ==
  {[el |-> el, ev |-> value.event, h |-> value.handler, capture |-> value.options.capture,
    by |-> by] : value \in values}

Remove(el, ev, h) ==
  /\ IF el = Null \/ ~elementListeners[el].has
     THEN UNCHANGED <<elementListeners, attached, detached>>
     ELSE LET listeners == elementListeners[el].map
              keysToRemove == Matching(listeners, ev, h)
          IN
          /\ attached' = [attached EXCEPT ![el] = DetachEach(@, keysToRemove)]
          /\ elementListeners' =
               [elementListeners EXCEPT ![el] = [has |-> TRUE, map |-> listeners \ keysToRemove]]
          /\ detached' = detached \cup Gone(el, keysToRemove, "remove")
  /\ lastEv' = [op |-> "remove", el |-> el, ev |-> "",
                hit |-> el # Null /\ Matching(elementListeners[el].map, ev, h) # {},
                fired |-> NoFired]
  /\ UNCHANGED listenerId
  /\ UNCHANGED <<loaderVars, utilVars>>

(***************************************************************************)
(* removeAll(), lines 260-264: a console warning and nothing else.         *)
(***************************************************************************)
RemoveAll ==
  /\ lastEv' = [op |-> "removeAll", el |-> Null, ev |-> "", hit |-> FALSE,
                fired |-> NoFired]
  /\ UNCHANGED <<elementListeners, listenerId, attached, detached>>
  /\ UNCHANGED <<loaderVars, utilVars>>

(***************************************************************************)
(* removeAllForElement(element), lines 270-281.                            *)
(***************************************************************************)
RemoveAllDetachNone(el) == attached[el]

RemoveAllDetach(el) == DetachEach(attached[el], elementListeners[el].map)

RemoveAllForgetEveryElement(el) == [e \in Elements |-> NoMap]

RemoveAllForget(el) == [elementListeners EXCEPT ![el] = NoMap]

RemoveAllForElement(el) ==
  /\ IF el = Null \/ ~elementListeners[el].has
     THEN UNCHANGED <<elementListeners, attached, detached>>
     ELSE /\ attached' = [attached EXCEPT ![el] = RemoveAllDetach(el)]
          /\ elementListeners' = RemoveAllForget(el)
          /\ detached' = detached \cup Gone(el, elementListeners[el].map, "removeAllForElement")
  /\ lastEv' = [op |-> "removeAllForElement", el |-> el, ev |-> "",
                hit |-> el # Null /\ elementListeners[el].map # {},
                fired |-> NoFired]
  /\ UNCHANGED listenerId
  /\ UNCHANGED <<loaderVars, utilVars>>

(***************************************************************************)
(* The browser dispatches an event of type ev on element el.               *)
(***************************************************************************)
Dispatch(el, ev) ==
  /\ attached' = [attached EXCEPT ![el] = DispatchKeeps(@, ev)]
  /\ lastEv' = [op |-> "dispatch", el |-> el, ev |-> ev, hit |-> FALSE,
                fired |-> DispatchFired(attached[el], ev)]
  /\ UNCHANGED <<elementListeners, listenerId, detached>>
  /\ UNCHANGED <<loaderVars, utilVars>>

(***************************************************************************)
(* Application code puts a handler on an element itself, without the       *)
(* manager and with the default options (custom.js line 24).               *)
(***************************************************************************)
DirectAdd(el, ev, h) ==
  /\ attached' = [attached EXCEPT
                    ![el] = AddEventListener(@, ev, h, [capture |-> FALSE, once |-> FALSE])]
  /\ lastEv' = [op |-> "direct", el |-> el, ev |-> "", hit |-> FALSE, fired |-> NoFired]
  /\ UNCHANGED <<elementListeners, listenerId, detached>>
  /\ UNCHANGED <<loaderVars, utilVars>>

(***************************************************************************)
(* constructor, lines 193-197.                                             *)
(***************************************************************************)
ListenerInit ==
  /\ elementListeners = [el \in Elements |-> NoMap]
  /\ listenerId = 0
  /\ attached = [el \in Elements |-> {}]
  /\ detached = {}
  /\ lastEv = NoEvStep

ListenerNext ==
  \/ \E el \in CoreElements \cup {Null}, ev \in Events, h \in Handlers, o \in Options :
        Add(el, ev, h, o)
  \/ \E el \in CoreElements \cup {Null}, ev \in Events, h \in Handlers : Remove(el, ev, h)
  \/ RemoveAll
  \/ \E el \in CoreElements \cup {Null} : RemoveAllForElement(el)
  \/ \E el \in CoreElements, ev \in Events : Dispatch(el, ev)

(***************************************************************************)
(* The manager used on two elements, next to handlers that application     *)
(* code attaches directly; click events only.                              *)
(***************************************************************************)
PageEvents == {"click"}
PageOptions == {o \in Options : ~o.once}

PageNext ==
  \/ \E el \in CoreElements, ev \in PageEvents, h \in Handlers : DirectAdd(el, ev, h)
  \/ \E el \in Elements, ev \in PageEvents, h \in Handlers, o \in PageOptions :
        Add(el, ev, h, o)
  \/ \E el \in Elements, ev \in PageEvents, h \in Handlers : Remove(el, ev, h)
  \/ \E el \in Elements : RemoveAllForElement(el)

(***************************************************************************)
(* throttle(func, limit), performance-utils.js lines 13-22: one wrapped    *)
(* function.  Args are the argument lists it is called with; a timer set   *)
(* by setTimeout(..., limit) fires once, limit milliseconds later.         *)
(***************************************************************************)
Args == {1, 2}

ThrottleInit ==
  thr = [inThrottle |-> FALSE, timers |-> 0, runs |-> <<>>, calls |-> 0,
         op |-> "init", ran |-> FALSE, arg |-> 0]

ThrottleSetNever(ran) == thr.inThrottle

ThrottleSet(ran) == IF ran THEN TRUE ELSE thr.inThrottle

ThrottledCall(a) ==
  LET ran == ~thr.inThrottle IN
  /\ thr.calls < MaxWrapped
  /\ thr' = [inThrottle |-> ThrottleSet(ran),
             timers |-> IF ran THEN thr.timers + 1 ELSE thr.timers,
             runs |-> IF ran THEN Append(thr.runs, a) ELSE thr.runs,
             calls |-> thr.calls + 1,
             op |-> "call", ran |-> ran, arg |-> a]
  /\ UNCHANGED <<loaderVars, listenerVars, deb, raf, dom, loan, cnv>>

ThrottleTimer ==
  /\ thr.timers > 0
  /\ thr' = [thr EXCEPT !.inThrottle = FALSE, !.timers = @ - 1,
                        !.op = "timer", !.ran = FALSE, !.arg = 0]
  /\ UNCHANGED <<loaderVars, listenerVars, deb, raf, dom, loan, cnv>>

ThrottleNext ==
  \/ \E a \in Args : ThrottledCall(a)
  \/ ThrottleTimer

(***************************************************************************)
(* debounce(func, wait, immediate), performance-utils.js lines 32-44: one  *)
(* wrapped function.  A pending timer is the closure `later` of the call    *)
(* that set it, which holds that call's args; its id is the number of the  *)
(* call.  NoTimer stands for the two falsy values timeout takes, undefined *)
(* before the first call and null after a timer has fired: clearTimeout    *)
(* ignores both.                                                           *)
(***************************************************************************)
NoTimer == 0

DebounceInit ==
  deb = [made |-> FALSE, immediate |-> FALSE, timeout |-> NoTimer, timers |-> {},
         runs |-> <<>>, calls |-> 0, bursts |-> 0, lastArg |-> 0,
         op |-> "init", ran |-> FALSE, arg |-> 0, tid |-> NoTimer]

\* debounce(func, wait, immediate): the closure is created with timeout undefined
Debounce(immediate) ==
  /\ ~deb.made
  /\ deb' = [deb EXCEPT !.made = TRUE, !.immediate = immediate, !.op = "make"]
  /\ UNCHANGED <<loaderVars, listenerVars, thr, raf, dom, loan, cnv>>

ClearTimeoutNothing(timers, id) == timers

\* clearTimeout(timeout)
ClearTimeout(timers, id) == {t \in timers : t.id # id}

CallNowAlways(immediate, timeout) == immediate

\* const callNow = immediate && !timeout
CallNow(immediate, timeout) == immediate /\ timeout = NoTimer

\* the returned function, called with args a; a burst starts with a call made
\* while no timer is pending
DebouncedCall(a) ==
  LET callNow == CallNow(deb.immediate, deb.timeout)
      id == deb.calls + 1
  IN
  /\ deb.made
  /\ deb.calls < MaxWrapped
  /\ deb' = [deb EXCEPT
               !.timers = ClearTimeout(deb.timers, deb.timeout)
                            \cup {[id |-> id, arg |-> a]},
               !.timeout = id,
               !.runs = IF callNow THEN Append(@, a) ELSE @,
               !.calls = id,
               !.bursts = IF deb.timers = {} THEN @ + 1 ELSE @,
               !.lastArg = a,
               !.op = "call", !.ran = callNow, !.arg = a, !.tid = id]
  /\ UNCHANGED <<loaderVars, listenerVars, thr, raf, dom, loan, cnv>>

\* later(), run by the timer t when its wait is over
DebounceTimer(t) ==
  /\ t \in deb.timers
  /\ deb' = [deb EXCEPT
               !.timers = @ \ {t},
               !.timeout = NoTimer,
               !.runs = IF ~deb.immediate THEN Append(@, t.arg) ELSE @,
               !.op = "timer", !.ran = ~deb.immediate, !.arg = t.arg, !.tid = t.id]
  /\ UNCHANGED <<loaderVars, listenerVars, thr, raf, dom, loan, cnv>>

DebounceFires == \E id \in 1..(MaxWrapped + 1), a \in Args : DebounceTimer([id |-> id, arg |-> a])

DebounceNext ==
  \/ \E immediate \in BOOLEAN : Debounce(immediate)
  \/ \E a \in Args : DebouncedCall(a)
  \/ DebounceFires

(***************************************************************************)
(* rafThrottle(callback), performance-utils.js lines 114-138: one wrapped  *)
(* function and its cancel().  A frame is a callback later(context)        *)
(* queued by requestAnimationFrame under the id it returned, the number of *)
(* the request; NoFrame is requestId === null.                             *)
(***************************************************************************)
NoFrame == 0

RafInit ==
  raf = [requestId |-> NoFrame, frames |-> {}, nreq |-> 0, lastArgs |-> 0,
         runs |-> <<>>, calls |-> 0, cancelled |-> {},
         op |-> "init", arg |-> 0, tid |-> NoFrame]

\* throttled(...args)
RafCall(a) ==
  /\ raf.calls < MaxWrapped
  /\ raf' = IF raf.requestId = NoFrame
            THEN [raf EXCEPT !.lastArgs = a,
                             !.requestId = raf.nreq + 1,
                             !.frames = @ \cup {raf.nreq + 1},
                             !.nreq = @ + 1,
                             !.calls = @ + 1,
                             !.op = "call", !.arg = a, !.tid = raf.nreq + 1]
            ELSE [raf EXCEPT !.lastArgs = a,
                             !.calls = @ + 1,
                             !.op = "call", !.arg = a, !.tid = NoFrame]
  /\ UNCHANGED <<loaderVars, listenerVars, thr, deb, dom, loan, cnv>>

\* later(context)(), run by the browser for the frame f
RafFrame(f) ==
  /\ f \in raf.frames
  /\ raf' = [raf EXCEPT !.frames = @ \ {f},
                        !.requestId = NoFrame,
                        !.runs = Append(@, raf.lastArgs),
                        !.op = "frame", !.arg = raf.lastArgs, !.tid = f]
  /\ UNCHANGED <<loaderVars, listenerVars, thr, deb, dom, loan, cnv>>

CancelAnimationFrameNothing(frames, id) == frames

\* cancelAnimationFrame(requestId)
CancelAnimationFrame(frames, id) == frames \ {id}

\* throttled.cancel(); cancelled remembers the ids handed to cancelAnimationFrame
RafCancel ==
  /\ raf' = IF raf.requestId # NoFrame
            THEN [raf EXCEPT !.frames = CancelAnimationFrame(@, raf.requestId),
                             !.requestId = NoFrame,
                             !.cancelled = @ \cup {raf.requestId},
                             !.op = "cancel", !.arg = 0, !.tid = raf.requestId]
            ELSE [raf EXCEPT !.op = "cancel", !.arg = 0, !.tid = NoFrame]
  /\ UNCHANGED <<loaderVars, listenerVars, thr, deb, dom, loan, cnv>>

RafNext ==
  \/ \E a \in Args : RafCall(a)
  \/ \E f \in 1..MaxWrapped : RafFrame(f)
  \/ RafCancel

(***************************************************************************)
(* DOMCache, performance-utils.js lines 50-106.  Keys are the strings the  *)
(* two methods are called with: "header" is an element id as well as a     *)
(* type selector, "#main" an id selector.  Documents are the states of the *)
(* page: what document.getElementById and document.querySelector return    *)
(* for each string, Null when nothing matches.                             *)
(***************************************************************************)
Keys == {"header", "#main"}

NotCached == "notcached"

Documents ==
  << [byId  |-> [k \in Keys |-> IF k = "header" THEN "div#header" ELSE Null],
      bySel |-> [k \in Keys |-> IF k = "header" THEN "header" ELSE "main#main"]],
     [byId  |-> [k \in Keys |-> Null],
      bySel |-> [k \in Keys |-> IF k = "header" THEN "header" ELSE Null]] >>

EmptyCache == [k \in Keys |-> NotCached]

\* constructor: this.cache = new Map()
DOMCacheInit ==
  dom = [cache |-> EmptyCache, doc |-> 1, selRef |-> EmptyCache, idRef |-> EmptyCache,
         op |-> "init", key |-> "", ret |-> Null]

\* if (!this.cache.has(key)) this.cache.set(key, value)
CacheFill(cache, key, value) ==
  IF cache[key] = NotCached THEN [cache EXCEPT ![key] = value] ELSE cache

\* getElementById(id)
GetElementById(id) ==
  LET found == Documents[dom.doc].byId[id]
      cache == CacheFill(dom.cache, id, found)
  IN
  /\ dom' = [dom EXCEPT !.cache = cache,
                        !.idRef = CacheFill(@, id, found),
                        !.op = "getElementById", !.key = id, !.ret = cache[id]]
  /\ UNCHANGED <<loaderVars, listenerVars, thr, deb, raf, loan, cnv>>

\* querySelector(selector)
QuerySelector(selector) ==
  LET found == Documents[dom.doc].bySel[selector]
      cache == CacheFill(dom.cache, selector, found)
  IN
  /\ dom' = [dom EXCEPT !.cache = cache,
                        !.selRef = CacheFill(@, selector, found),
                        !.op = "querySelector", !.key = selector, !.ret = cache[selector]]
  /\ UNCHANGED <<loaderVars, listenerVars, thr, deb, raf, loan, cnv>>

\* this.cache.delete(key) for a truthy key, this.cache.clear() otherwise
CacheClear(cache, key) ==
  IF key # "" THEN [k \in Keys |-> IF k = key THEN NotCached ELSE cache[k]]
  ELSE EmptyCache

\* clear(key); "" stands for a call without a key
DomClear(key) ==
  /\ dom' = [dom EXCEPT !.cache = CacheClear(@, key),
                        !.selRef = CacheClear(@, key),
                        !.idRef = CacheClear(@, key),
                        !.op = "clear", !.key = key, !.ret = Null]
  /\ UNCHANGED <<loaderVars, listenerVars, thr, deb, raf, loan, cnv>>

\* invalidate()
Invalidate ==
  /\ dom' = [dom EXCEPT !.cache = EmptyCache, !.selRef = EmptyCache, !.idRef = EmptyCache,
                        !.op = "invalidate", !.key = "", !.ret = Null]
  /\ UNCHANGED <<loaderVars, listenerVars, thr, deb, raf, loan, cnv>>

\* the page changes under the cache
DomChange ==
  /\ dom' = [dom EXCEPT !.doc = IF @ = Len(Documents) THEN 1 ELSE @ + 1,
                        !.op = "change", !.key = "", !.ret = Null]
  /\ UNCHANGED <<loaderVars, listenerVars, thr, deb, raf, loan, cnv>>

DOMCacheNext ==
  \/ \E id \in Keys : GetElementById(id)
  \/ \E selector \in Keys : QuerySelector(selector)
  \/ \E key \in Keys \cup {""} : DomClear(key)
  \/ Invalidate
  \/ DomChange

(***************************************************************************)
(* calculateInterestRate(loanAmount), loan-registration.js lines 305-312.  *)
(* The argument is a number or a string (line 302) or is missing.  A       *)
(* string is the sequence of its characters.  A number is an integer n     *)
(* (kind "number"), the power of ten 10^n for n >= 21 (kind "huge"), or    *)
(* NaN.  A rate is kept in tenths of a percent, 115 for 11.5; "empty"      *)
(* marks the result ''.                                                    *)
(***************************************************************************)
Thresholds == {0, 50000000, 100000000, 300000000}

Numbers == {t + d : t \in Thresholds, d \in (0 - MaxDelta)..MaxDelta}

DigitChars == <<"0", "1", "2", "3", "4", "5", "6", "7", "8", "9">>

IsDigit(c) == \E d \in 1..10 : DigitChars[d] = c

DigitValue(c) == (CHOOSE d \in 1..10 : DigitChars[d] = c) - 1

RECURSIVE NatToString(_)
NatToString(n) ==
  IF n < 10 THEN <<DigitChars[n + 1]>>
  ELSE NatToString(n \div 10) \o <<DigitChars[(n % 10) + 1]>>

\* Number::toString of an integer below 10^21
IntToString(n) == IF n < 0 THEN <<"-">> \o NatToString(0 - n) ELSE NatToString(n)

\* Number::toString of 10^n for n >= 21: "1e+21"
HugeToString(n) == <<"1", "e", "+">> \o NatToString(n)

NumberInputs ==
  {[kind |-> "number", n |-> n, text |-> <<>>] : n \in Numbers}
    \cup {[kind |-> "huge", n |-> 21, text |-> <<>>],
          [kind |-> "nan", n |-> 0, text |-> <<>>]}

\* the digits of each amount, the empty string, an amount as formatNumber
\* writes it (lines 236-239), one with a leading blank, and one without digits
StringInputs ==
  {[kind |-> "string", n |-> 0, text |-> IntToString(n)] : n \in Numbers}
    \cup {[kind |-> "string", n |-> 0, text |-> t] :
            t \in {<<>>,
                   <<"3", "0", "0", ".", "0", "0", "0", ".", "0", "0", "0">>,
                   <<" ", "5", "0", "0", "0", "0", "0", "0", "0">>,
                   <<"V", "N", "D">>}}

Inputs == {[kind |-> "undefined", n |-> 0, text |-> <<>>]} \cup NumberInputs \cup StringInputs

\* !loanAmount
Falsy(x) ==
  \/ x.kind \in {"undefined", "nan"}
  \/ x.kind = "number" /\ x.n = 0
  \/ x.kind = "string" /\ x.text = <<>>

\* ToString(loanAmount), the first step of parseInt
ToStringArg(x) ==
  CASE x.kind = "string" -> x.text
    [] x.kind = "number" -> IntToString(x.n)
    [] x.kind = "huge" -> HugeToString(x.n)
    [] x.kind = "nan" -> <<"N", "a", "N">>
    [] OTHER -> <<"u", "n", "d", "e", "f", "i", "n", "e", "d">>

RECURSIVE TrimStart(_)
TrimStart(s) == IF s # <<>> /\ Head(s) = " " THEN TrimStart(Tail(s)) ELSE s

RECURSIVE DigitsPrefix(_)
DigitsPrefix(s) ==
  IF s # <<>> /\ IsDigit(Head(s)) THEN <<Head(s)>> \o DigitsPrefix(Tail(s)) ELSE <<>>

RECURSIVE DigitsNumber(_)
DigitsNumber(s) ==
  IF s = <<>> THEN 0
  ELSE 10 * DigitsNumber(SubSeq(s, 1, Len(s) - 1)) + DigitValue(s[Len(s)])

NaN == [nan |-> TRUE, v |-> 0]

\* parseInt(string): blanks skipped, a sign, then the longest run of decimal
\* digits; NaN when there is none
ParseInt(s) ==
  LET t == TrimStart(s)
      signed == t # <<>> /\ Head(t) \in {"-", "+"}
      digits == DigitsPrefix(IF signed THEN Tail(t) ELSE t)
  IN IF digits = <<>> THEN NaN
     ELSE [nan |-> FALSE,
           v |-> IF signed /\ Head(t) = "-" THEN 0 - DigitsNumber(digits)
                 ELSE DigitsNumber(digits)]

\* loanAmount >= limit: false for NaN
AtLeast(parsed, limit) == ~parsed.nan /\ parsed.v >= limit

EmptyRate == [empty |-> TRUE, tenths |-> 0]

Rate(tenths) == [empty |-> FALSE, tenths |-> tenths]

CalculateInterestRate(x) ==
  IF Falsy(x) THEN EmptyRate
  ELSE LET loanAmount == ParseInt(ToStringArg(x)) IN
       IF AtLeast(loanAmount, 300000000) THEN Rate(100)
       ELSE IF AtLeast(loanAmount, 100000000) THEN Rate(110)
       ELSE IF AtLeast(loanAmount, 50000000) THEN Rate(115)
       ELSE Rate(120)

NoRateCall == [input |-> [kind |-> "undefined", n |-> 0, text |-> <<>>], out |-> EmptyRate]

LoanInit == loan = [prev |-> NoRateCall, cur |-> NoRateCall, op |-> "init"]

\* one call calculateInterestRate(x)
Calculate(x) ==
  /\ loan' = [prev |-> loan.cur,
              cur |-> [input |-> x, out |-> CalculateInterestRate(x)],
              op |-> "rate"]
  /\ UNCHANGED <<loaderVars, listenerVars, thr, deb, raf, dom, cnv>>

LoanNext == \E x \in Inputs : Calculate(x)

(***************************************************************************)
(* renderCanvas(canvasId, imageUrl, userData), loan-registration.js lines  *)
(* 55-214, with the module's userData binding and local storage, lines     *)
(* 25-39.  Objects are the data objects in memory: "page" is the object    *)
(* the module starts with, "own" one the caller built, "parsed" the one    *)
(* JSON.parse makes in loadUserData.  A data object is modelled by its two *)
(* image URL properties; a URL made by canvas.toDataURL is the number of   *)
(* the renderCanvas call it was made for, NoUrl when the property is not   *)
(* set.  The stored item is the object JSON.stringify wrote, NoItem when   *)
(* nothing is stored under 'userData'.                                     *)
(***************************************************************************)
Objects == {"page", "own", "parsed"}

CanvasIds == {"contractCanvas", "disbursementCanvas", "photoCanvas"}

NoUrl == 0

NoData == [contractImageUrl |-> NoUrl, disbursementImageUrl |-> NoUrl]

NoItem == [stored |-> FALSE, data |-> NoData]

CanvasInit ==
  cnv = [userData |-> "page", heap |-> [o \in Objects |-> NoData], item |-> NoItem,
         images |-> {}, renders |-> 0,
         op |-> "init", canvasId |-> "", data |-> "page", url |-> NoUrl]

\* renderCanvas up to img.src = imageUrl: the image is requested
RenderCanvas(canvasId, data) ==
  /\ cnv.renders < MaxRenders
  /\ cnv' = [cnv EXCEPT
               !.images = @ \cup {[id |-> cnv.renders + 1, canvasId |-> canvasId,
                                   data |-> data]},
               !.renders = @ + 1,
               !.op = "render", !.canvasId = canvasId, !.data = data, !.url = NoUrl]
  /\ UNCHANGED <<loaderVars, listenerVars, thr, deb, raf, dom, loan>>

\* userData.contractImageUrl = dataUrl / userData.disbursementImageUrl = dataUrl,
\* userData being the parameter
SetImageUrl(heap, canvasId, data, url) ==
  IF canvasId = "contractCanvas" THEN [heap EXCEPT ![data].contractImageUrl = url]
  ELSE IF canvasId = "disbursementCanvas" THEN [heap EXCEPT ![data].disbursementImageUrl = url]
  ELSE heap

\* saveToLocalStorage(): JSON.stringify of the module's userData
SaveToLocalStorage(heap) == [stored |-> TRUE, data |-> heap[cnv.userData]]

\* img.onload, lines 78-200
ImgOnLoad(image) ==
  LET drawn == image.canvasId \in {"contractCanvas", "disbursementCanvas"}
      heap == SetImageUrl(cnv.heap, image.canvasId, image.data, image.id)
  IN
  /\ image \in cnv.images
  /\ cnv' = [cnv EXCEPT
               !.heap = heap,
               !.item = IF drawn THEN SaveToLocalStorage(heap) ELSE @,
               !.images = @ \ {image},
               !.op = IF drawn THEN "drawn" ELSE "loaded",
               !.canvasId = image.canvasId, !.data = image.data,
               !.url = IF drawn THEN image.id ELSE NoUrl]
  /\ UNCHANGED <<loaderVars, listenerVars, thr, deb, raf, dom, loan>>

\* loadUserData(): userData = JSON.parse(savedData), a new object
LoadUserData ==
  /\ cnv' = IF cnv.item.stored
            THEN [cnv EXCEPT !.userData = "parsed", !.heap["parsed"] = cnv.item.data,
                             !.op = "loadUserData", !.canvasId = "", !.url = NoUrl]
            ELSE [cnv EXCEPT !.op = "loadUserData", !.canvasId = "", !.url = NoUrl]
  /\ UNCHANGED <<loaderVars, listenerVars, thr, deb, raf, dom, loan>>

CanvasNext ==
  \/ \E canvasId \in CanvasIds, data \in Objects : RenderCanvas(canvasId, data)
  \/ \E id \in 1..MaxRenders, canvasId \in CanvasIds, data \in Objects :
        ImgOnLoad([id |-> id, canvasId |-> canvasId, data |-> data])
  \/ LoadUserData

UtilInit ==
  ThrottleInit /\ DebounceInit /\ RafInit /\ DOMCacheInit /\ LoanInit /\ CanvasInit

(***************************************************************************)
(* The loader on its own, and the listener manager on its own: neither     *)
(* component reads or writes the other's state.                            *)
(***************************************************************************)
Init == LoaderInit /\ ListenerInit /\ UtilInit

LoaderSpec == Init /\ [][LoaderNext]_vars

ListenerSpec == Init /\ [][ListenerNext]_vars

PreloadSpec == Init /\ [][PreloadNext]_vars

FrameSpec == Init /\ [][FrameNext]_vars

LiveSpec == Init /\ [][LiveNext]_vars /\ ScriptsSettle

PageSpec == Init /\ [][PageNext]_vars

ThrottleSpec == Init /\ [][ThrottleNext]_vars

RafSpec == Init /\ [][RafNext]_vars

DOMCacheSpec == Init /\ [][DOMCacheNext]_vars

LoanSpec == Init /\ [][LoanNext]_vars

CanvasSpec == Init /\ [][CanvasNext]_vars

\* a timer set by setTimeout fires once its wait is over
DebounceSpec == Init /\ [][DebounceNext]_vars /\ WF_vars(DebounceFires)

(***************************************************************************)
(* C1.  For each name, the loadScript calls made one after another while   *)
(* no call for that name has settled and no unload(name) has come between  *)
(* (their presence checks absent or falsy) wait on one script: exactly one *)
(* of them injected a script element and the others returned its promise.  *)
(***************************************************************************)
C1_OneInjection ==
  \A n \in Names :
    streak[n] # {} =>
      /\ Cardinality({c \in streak[n] : c.kind = "started"}) = 1
      /\ Cardinality({c.pid : c \in streak[n]}) = 1
      /\ \A c \in streak[n] : c.pid \in 1..Len(scripts) /\ ~Truthy(c.seen)

C1_Witness ==
  \E n \in Names :
    /\ Cardinality(streak[n]) = 3
    /\ ncalls = 3
    /\ Len(scripts) = 1

(***************************************************************************)
(* C2 as stated.  Every loadScript(name) call made while a load for name   *)
(* was in flight ends as that load's promise ends, whatever its presence   *)
(* check returned.                                                         *)
(***************************************************************************)
C2_SameOutcomeWhateverCheck ==
  \A c \in calls :
    (c.tracked # 0 /\ Settled(c) /\ scripts[c.tracked].pstate # "pending") =>
      Outcome(c) = [state |-> scripts[c.tracked].pstate, val |-> scripts[c.tracked].val,
                    reason |-> scripts[c.tracked].reason]

(***************************************************************************)
(* C2 amended.  A loadScript(name) call that finds a load for name tracked *)
(* in loadingPromises, its presence check absent or falsy and the name not *)
(* recorded as loaded, returns the tracked promise: it ends exactly as the *)
(* call that started that load ends.                                       *)
(***************************************************************************)
C2_JoinersShareOutcome ==
  \A c \in calls :
    (c.tracked # 0 /\ ~Truthy(c.seen) /\ ~c.wasLoaded) =>
      /\ c.pid = c.tracked
      /\ \A c0 \in calls :
           (c0.kind = "started" /\ c0.pid = c.tracked) => Outcome(c) = Outcome(c0)

C2_Witness ==
  \E c \in calls, c0 \in calls :
    /\ c.tracked # 0 /\ ~Truthy(c.seen) /\ ~c.wasLoaded
    /\ c0.kind = "started" /\ c0.pid = c.tracked
    /\ Outcome(c0).state = "rejected"
    /\ Outcome(c) = Outcome(c0)

(***************************************************************************)
(* C3.  A loadScript call whose presence check returns a truthy handle     *)
(* fulfils with that handle and injects no script, and right after it the  *)
(* name is recorded as loaded, whether the name was unrequested, loading,  *)
(* loaded or just unloaded.                                                *)
(***************************************************************************)
C3_PresentWins ==
  /\ \A c \in calls :
       Truthy(c.seen) =>
         /\ c.kind = "present" /\ c.pid = 0
         /\ Outcome(c) = [state |-> "fulfilled", val |-> c.seen, reason |-> <<>>]
  /\ (last.op = "loadScript" /\ Truthy(last.call.seen)) =>
       IsLoaded(last.name) /\ last.script = 0

C3_Witness ==
  /\ last.op = "loadScript"
  /\ Truthy(last.call.seen)
  /\ last.call.tracked # 0
  /\ \E c \in calls : Truthy(c.seen) /\ c.wasLoaded
  /\ IsLoaded(last.name)

(***************************************************************************)
(* C4 as stated.  Right after a script's error event has rejected the      *)
(* calls waiting on it, isLoaded(name) is false, no promise is tracked for *)
(* name, and a loadScript(name) without presence check would inject.       *)
(***************************************************************************)
C4_FailureLeavesUnrequested ==
  last.op = "error" =>
    /\ ~IsLoaded(last.name)
    /\ loadingPromises[last.name] = 0
    /\ LoadBranch(last.name, FALSE) = "started"

(***************************************************************************)
(* C4 amended.  Right after a script's error event no promise is tracked   *)
(* for name and the failure has recorded nothing: isLoaded(name) is true   *)
(* only if a presence-check hit or another script's load event recorded    *)
(* the name.  When the name is not recorded, the next loadScript(name)     *)
(* with an absent or falsy presence check injects a new script, and a call *)
(* that injected a script fulfils once that script has loaded.             *)
(***************************************************************************)
C4_FailureNotCached ==
  /\ last.op = "error" =>
       /\ scripts[last.script].pstate = "rejected"
       /\ loadingPromises[last.name] = 0
       /\ IsLoaded(last.name) =>
            \E c \in calls :
              /\ c.name = last.name
              /\ \/ c.kind = "present"
                 \/ c.kind = "started" /\ scripts[c.pid].status = "loaded"
       /\ ~IsLoaded(last.name) =>
            /\ LoadBranch(last.name, FALSE) = "started"
            /\ ~Truthy(CheckFn(last.name)) => LoadBranch(last.name, TRUE) = "started"
  /\ \A c \in calls :
       (c.kind = "started" /\ scripts[c.pid].status = "loaded") =>
          Outcome(c).state = "fulfilled"

C4_Witness ==
  \E c0 \in calls, c1 \in calls :
    /\ c0.kind = "started" /\ scripts[c0.pid].status = "error"
    /\ c1.kind = "started" /\ c1.pid > c0.pid /\ c1.tracked = 0 /\ ~c1.wasLoaded
    /\ scripts[c1.pid].status = "loaded"
    /\ Outcome(c1).state = "fulfilled"

(***************************************************************************)
(* C5.  Right after a script's error event every call for that name that   *)
(* was waiting is rejected, with a reason naming the name and the url of   *)
(* the script that was injected.                                           *)
(***************************************************************************)
C5_ErrorRejectsAllWaiters ==
  last.op = "error" =>
    \A c \in calls :
      (c.name = last.name /\ c.kind \in {"joined", "started"}
         /\ (c.pid = last.script \/ scripts[c.pid].pstate = "pending")) =>
        /\ Outcome(c).state = "rejected"
        /\ Outcome(c).reason = <<last.name, scripts[last.script].url>>

(***************************************************************************)
(* C6.  isLoaded(name) is true exactly from the first fulfilment of a      *)
(* loadScript(name) call until unload(name): false before any call has     *)
(* fulfilled, true as soon as one has, and true after every later          *)
(* operation that is not unload(name).                                     *)
(***************************************************************************)
C6_LoadedFromFulfilmentToUnload ==
  \A n \in Names : IsLoaded(n) <=> fulfilled[n]

C6_Witness ==
  \E n \in Names :
    /\ IsLoaded(n)
    /\ loadedLibraries[n] = Undefined
    /\ last.op = "global"
    /\ \E c \in calls : c.name = n /\ Outcome(c).state = "fulfilled"

(***************************************************************************)
(* C7.  At most one injected script per library name is outstanding.       *)
(***************************************************************************)
C7_OneOutstandingPerName ==
  \A n \in Names : Cardinality(Outstanding(n)) <= 1

(***************************************************************************)
(* The handler h is on element el's listener list for event ev.            *)
(***************************************************************************)
AttachedFor(el, ev, h) == {a \in attached[el] : a.event = ev /\ a.handler = h}

(***************************************************************************)
(* C8.  An add call that finds its (element, event, handler) registered    *)
(* leaves the entries and the attachments as they were; every triple has   *)
(* at most one entry and at most one attachment; a dispatched event runs   *)
(* no handler twice and runs once every handler registered for it (a       *)
(* handler added with once: true, which the element drops after its first  *)
(* run, aside).                                                            *)
(***************************************************************************)
C8_AtMostOnce ==
  /\ \A el \in Elements, ev \in Events, h \in Handlers :
       /\ Cardinality(Matching(elementListeners[el].map, ev, h)) <= 1
       /\ Cardinality(AttachedFor(el, ev, h)) <= 1
  /\ lastEv.op = "dispatch" =>
       \A h \in Handlers :
         /\ lastEv.fired[h] <= 1
         /\ (\E value \in Matching(elementListeners[lastEv.el].map, lastEv.ev, h) :
               ~value.options.once) => lastEv.fired[h] = 1

C9_RemoveAllForElementSilences ==
  /\ (lastEv.op = "removeAllForElement" /\ lastEv.el # Null) =>
       /\ ~elementListeners[lastEv.el].has
       /\ elementListeners[lastEv.el].map = {}
       /\ attached[lastEv.el] = {}
  /\ \A d \in detached :
       d.by = "removeAllForElement" =>
         /\ AttachedFor(d.el, d.ev, d.h) = {}
         /\ (lastEv.op = "dispatch" /\ lastEv.el = d.el /\ lastEv.ev = d.ev) =>
              lastEv.fired[d.h] = 0

C9_Witness ==
  /\ lastEv.op = "dispatch"
  /\ \E d \in detached, e \in detached :
       /\ d # e
       /\ d.by = "removeAllForElement" /\ e.by = "removeAllForElement"
       /\ d.el = lastEv.el /\ d.ev = lastEv.ev /\ e.el = d.el
       /\ d.capture

(***************************************************************************)
(* C10.  remove(element, event, handler) on a registered triple deletes    *)
(* the entry and takes the handler off the element, whatever capture flag  *)
(* it was added with, so that the handler does not run on later events     *)
(* (until it is added again).                                              *)
(***************************************************************************)
C10_RemoveDetaches ==
  \A d \in detached :
    d.by = "remove" =>
      /\ Matching(elementListeners[d.el].map, d.ev, d.h) = {}
      /\ AttachedFor(d.el, d.ev, d.h) = {}
      /\ (lastEv.op = "dispatch" /\ lastEv.el = d.el /\ lastEv.ev = d.ev) =>
           lastEv.fired[d.h] = 0

C10_Witness ==
  /\ lastEv.op = "dispatch"
  /\ \E d \in detached :
       /\ d.by = "remove" /\ d.capture
       /\ d.el = lastEv.el /\ d.ev = lastEv.ev
       /\ \E h \in Handlers : h # d.h /\ lastEv.fired[h] = 1

(***************************************************************************)
(* C11.  add, remove and removeAllForElement called with an absent element *)
(* (null or undefined: both fail the test !element) complete without       *)
(* raising and leave the recorded entries, the key counter and every       *)
(* element's listener list as they were.                                   *)
(***************************************************************************)
C11_AbsentElementIsNoOp ==
  [][(lastEv'.op \in {"add", "remove", "removeAllForElement"} /\ lastEv'.el = Null) =>
       /\ elementListeners' = elementListeners
       /\ listenerId' = listenerId
       /\ attached' = attached
       /\ detached' = detached]_vars

C11_Witness ==
  /\ lastEv.op = "removeAllForElement"
  /\ lastEv.el = Null
  /\ \E el \in Elements :
       /\ Cardinality(elementListeners[el].map) = 2
       /\ Cardinality(attached[el]) = 2

(***************************************************************************)
(* C12.  Right after removeAll() no handler registered through add is on   *)
(* any element's listener list.                                            *)
(***************************************************************************)
C12_RemoveAllCleansAll ==
  lastEv.op = "removeAll" => \A el \in Elements : attached[el] = {}

(***************************************************************************)
(* The callbacks scheduled for method m and not yet run.                   *)
(***************************************************************************)
Scheduled(m) == {i \in 1..Len(idleQueue) : idleQueue[i] = m}

(***************************************************************************)
(* C13.  A preload call injects no script, makes no loadScript call and    *)
(* leaves both Maps as they were; the named loader is invoked only by an   *)
(* idle callback, each invocation is one loadScript call for the loader's  *)
(* library, and every preload call of a loader has either its callback     *)
(* still scheduled or exactly one invocation made.                         *)
(***************************************************************************)
C13_PreloadOnlySchedules ==
  /\ [](\A m \in Methods :
          IsLoader(m) =>
            preloadLog[m].asked = preloadLog[m].run + Cardinality(Scheduled(m)))
  /\ [][last'.op = "preload" =>
          /\ scripts' = scripts
          /\ loadedLibraries' = loadedLibraries
          /\ loadingPromises' = loadingPromises
          /\ calls' = calls /\ ncalls' = ncalls
          /\ preloadLog'[last'.name].run = preloadLog[last'.name].run]_vars
  /\ [][\A m \in Methods :
          (IsLoader(m) /\ preloadLog'[m].run # preloadLog[m].run) =>
            /\ preloadLog'[m].run = preloadLog[m].run + 1
            /\ Cardinality(Scheduled(m))' = Cardinality(Scheduled(m)) - 1
            /\ ncalls' = ncalls + 1
            /\ last'.op = "loadScript" /\ last'.call.pre
            /\ last'.call.name = LoaderName(m)]_vars
  /\ [][(last'.op = "loadScript" /\ last'.call.pre) =>
          Len(idleQueue') = Len(idleQueue) - 1]_vars

C13_Witness ==
  /\ preloadLog["loadOpenCV"] = [asked |-> 1, run |-> 1]
  /\ idleQueue = <<>>
  /\ last.op = "loadScript" /\ last.call.pre /\ last.call.kind = "started"
  /\ Len(scripts) = 1

C15_CachedHandleIsLoadersHandle ==
  \A c \in calls :
    c.kind = "cached" =>
      /\ c.pid = 0
      /\ \E c0 \in calls :
           /\ c0.name = c.name
           /\ c0.kind \in {"present", "joined", "started"}
           /\ Settled(c0)
           /\ Outcome(c0).state = "fulfilled"
           /\ Outcome(c0).val = c.val

(***************************************************************************)
(* C16 as stated.  A loadScript(name) call made while a load for name is   *)
(* tracked returns the very promise object an earlier call returned.       *)
(***************************************************************************)
C16_SamePromiseObject ==
  (last.op = "loadScript" /\ last.call.tracked # 0) =>
    \E k \in 1..(ncalls - 1) : Returned.obj = AsyncReturn(k, last.call.tracked).obj

(***************************************************************************)
(* C16 amended.  A loadScript(name) call made while a load for name is     *)
(* tracked, its presence check absent or falsy and the name not recorded   *)
(* as loaded, injects no script and returns a promise object of its own,   *)
(* given to no earlier call, that is resolved with the one tracked         *)
(* promise, which is still pending.                                        *)
(***************************************************************************)
C16_OwnPromiseFollowsTracked ==
  (last.op = "loadScript" /\ last.call.tracked # 0 /\ ~Truthy(last.call.seen)
     /\ ~last.call.wasLoaded) =>
    /\ last.call.kind = "joined"
    /\ Returned.inner = last.call.tracked
    /\ scripts[Returned.inner].pstate = "pending"
    /\ \A k \in 1..(ncalls - 1) : Returned.obj # AsyncReturn(k, last.call.tracked).obj
    /\ \E c0 \in calls : c0.kind = "started" /\ c0.pid = Returned.inner

C16_Witness ==
  /\ last.op = "loadScript"
  /\ last.call.kind = "joined"
  /\ ncalls = 3
  /\ Cardinality({c \in calls : c.pid = last.script}) >= 2
  /\ Len(scripts) = 1

(***************************************************************************)
(* C17.  Right after a script's load event the name is recorded as loaded, *)
(* no promise is tracked for it, and every call waiting on that script's   *)
(* promise is fulfilled with one value: what the presence check returns    *)
(* at load time when the injecting call supplied one, the literal true     *)
(* otherwise; the value stored in loadedLibraries is that same value.      *)
(***************************************************************************)
C17_LoadFulfilsWithCachedValue ==
  last.op = "load" =>
    LET s == last.script
        lib == IF scripts[s].hc THEN win[last.name] ELSE Sentinel
    IN /\ scripts[s].name = last.name
       /\ IsLoaded(last.name)
       /\ loadedLibraries[last.name] = lib
       /\ loadingPromises[last.name] = 0
       /\ scripts[s].status = "loaded"
       /\ \A c \in calls :
            c.pid = s => Outcome(c) = [state |-> "fulfilled", val |-> lib, reason |-> <<>>]

C17_Witness ==
  /\ last.op = "load"
  /\ scripts[last.script].hc
  /\ loadedLibraries[last.name] \in Handles
  /\ Cardinality({c \in calls : c.pid = last.script}) = 2
  /\ \E c \in calls : c.pid = last.script /\ Outcome(c).val \in Handles
  /\ \E s \in 1..Len(scripts) : ~scripts[s].hc /\ scripts[s].val = Sentinel

(***************************************************************************)
(* C18 as stated.  No name is at once recorded in loadedLibraries and      *)
(* tracked in loadingPromises.                                             *)
(***************************************************************************)
C18_LoadedXorLoading ==
  \A n \in Names : ~(IsLoaded(n) /\ loadingPromises[n] # 0)

(***************************************************************************)
(* C18 amended.  A name is at once recorded in loadedLibraries and tracked *)
(* in loadingPromises only when a loadScript call whose presence check was *)
(* truthy recorded it while the tracked script was in flight: the recorded *)
(* value is then the literal true, the tracked script is still pending,    *)
(* and loadScript treats the name as loaded.  A script's load event, its   *)
(* error event and unload each leave the name untracked.                   *)
(***************************************************************************)
C18_BothOnlyAfterPresenceHit ==
  /\ \A n \in Names :
       (IsLoaded(n) /\ loadingPromises[n] # 0) =>
         /\ loadedLibraries[n] = Sentinel
         /\ scripts[loadingPromises[n]].status = "pending"
         /\ LoadBranch(n, FALSE) = "cached"
         /\ \E c \in calls :
              c.name = n /\ c.kind = "present" /\ c.tracked = loadingPromises[n]
  /\ last.op \in {"load", "error", "unload"} => loadingPromises[last.name] = 0

C18_Witness ==
  \E n \in Names :
    /\ IsLoaded(n) /\ loadingPromises[n] # 0
    /\ last.op = "loadScript" /\ last.call.kind = "cached" /\ last.name = n
    /\ last.call.tracked = loadingPromises[n]

(***************************************************************************)
(* C19.  An isLoaded(name) call injects no script, makes no loadScript     *)
(* call, schedules nothing and leaves loadedLibraries and loadingPromises  *)
(* as they were, whatever state the name is in.                            *)
(***************************************************************************)
C19_IsLoadedChangesNothing ==
  [][last'.op = "isLoaded" =>
       /\ scripts' = scripts
       /\ loadedLibraries' = loadedLibraries
       /\ loadingPromises' = loadingPromises
       /\ calls' = calls /\ ncalls' = ncalls
       /\ idleQueue' = idleQueue]_vars

C19_Witness ==
  /\ last.op = "isLoaded"
  /\ ~IsLoaded(last.name)
  /\ loadingPromises[last.name] # 0
  /\ \E n \in Names : n # last.name /\ IsLoaded(n)
  /\ \E s \in 1..Len(scripts) : scripts[s].status = "error"

(***************************************************************************)
(* C20.  unload(name) deletes name from loadedLibraries and from           *)
(* loadingPromises, so that isLoaded(name) is false right after it, and    *)
(* leaves the entries of every other name in both Maps and the injected    *)
(* scripts, pending ones included, as they were.                           *)
(***************************************************************************)
C20_UnloadForgetsOnlyName ==
  [][last'.op = "unload" =>
       /\ loadedLibraries'[last'.name] = Absent
       /\ loadingPromises'[last'.name] = 0
       /\ \A n \in Names :
            IF n = last'.name
            THEN ~IsLoaded(n)'
            ELSE /\ loadedLibraries'[n] = loadedLibraries[n]
                 /\ loadingPromises'[n] = loadingPromises[n]
       /\ scripts' = scripts]_vars

C20_Witness ==
  /\ last.op = "unload"
  /\ Outstanding(last.name) # {}
  /\ \E c \in calls : c.name = last.name /\ c.kind = "present" /\ c.tracked # 0
  /\ \E n \in Names : n # last.name /\ IsLoaded(n)

(***************************************************************************)
(* C21.  Every loadScript call returns a promise that is settled at once   *)
(* or follows the promise of an injected script, and every injected        *)
(* script's promise is settled in the end, whether or not unload(name) or  *)
(* a second load of the name came after it.                                *)
(***************************************************************************)
C21_EveryPromiseSettles ==
  /\ [](\A c \in calls : c.kind \in {"joined", "started"} => c.pid \in 1..Len(scripts))
  /\ \A s \in 1..MaxScripts :
       (s <= Len(scripts)) ~> (s <= Len(scripts) /\ scripts[s].pstate # "pending")
  /\ <>[](\A c \in calls : Settled(c))

C21_Witness ==
  /\ Len(scripts) = 2
  /\ scripts[1].name = scripts[2].name
  /\ \E c1 \in calls, c2 \in calls :
       /\ c1.pid = 1 /\ c2.pid = 2 /\ c2.tracked = 0 /\ ~c2.wasLoaded
       /\ Settled(c1) /\ Settled(c2)
  /\ scripts[2].status = "loaded" /\ scripts[1].status = "loaded"
  /\ last.op = "load" /\ last.script = 1

(***************************************************************************)
(* C22.  An add(element, event, handler, options) call that finds no entry *)
(* for (event, handler) on the element, whatever other entries the element *)
(* has, puts the handler on the element's listener list with the given     *)
(* capture and once flags and records exactly one new entry, holding that  *)
(* event, handler and options; nothing recorded or attached before is      *)
(* lost.                                                                   *)
(***************************************************************************)
C22_AddAttachesAndRecords ==
  [][(lastEv'.op = "add" /\ lastEv'.el # Null /\ ~lastEv'.hit) =>
       \A ev \in Events, h \in Handlers, o \in Options :
         Add(lastEv'.el, ev, h, o) =>
           LET el == lastEv'.el
               new == elementListeners'[el].map \ elementListeners[el].map
           IN
           /\ Matching(elementListeners[el].map, ev, h) = {}
           /\ elementListeners'[el].has
           /\ elementListeners[el].map \subseteq elementListeners'[el].map
           /\ Cardinality(new) = 1
           /\ \A value \in new : value.event = ev /\ value.handler = h /\ value.options = o
           /\ attached'[el] \ attached[el] =
                {[event |-> ev, handler |-> h, capture |-> o.capture, once |-> o.once]}
           /\ attached[el] \subseteq attached'[el]]_vars

C22_Witness ==
  /\ lastEv.op = "add" /\ ~lastEv.hit /\ lastEv.el # Null
  /\ \E e1 \in elementListeners[lastEv.el].map, e2 \in elementListeners[lastEv.el].map :
       /\ e1.key[2] < e2.key[2]
       /\ (e1.event = e2.event) # (e1.handler = e2.handler)
       /\ e2.options.capture /\ e2.options.once
       /\ Cardinality(AttachedFor(lastEv.el, e2.event, e2.handler)) = 1
       /\ Cardinality(attached[lastEv.el]) = 2

(***************************************************************************)
(* C23.  A remove(element, event, handler) call that finds no entry for    *)
(* (event, handler) on the element, and a removeAllForElement(element)     *)
(* call on an element with no entries, take nothing off any listener list  *)
(* and leave every element's recorded entries and the key counter as they  *)
(* were; a handler that application code attached itself, for which the    *)
(* manager has no entry, stays attached.                                   *)
(***************************************************************************)
C23_NoEntryNoEffect ==
  [][/\ (lastEv'.op = "remove" /\ lastEv'.el # Null) =>
          \A ev \in Events, h \in Handlers :
            (/\ {value \in elementListeners[lastEv'.el].map :
                    value.event = ev /\ value.handler = h} = {}
             /\ Remove(lastEv'.el, ev, h)) =>
               /\ attached' = attached
               /\ \A el \in Elements : elementListeners'[el].map = elementListeners[el].map
               /\ listenerId' = listenerId
     /\ (/\ lastEv'.op = "removeAllForElement" /\ lastEv'.el # Null
         /\ elementListeners[lastEv'.el].map = {}) =>
          /\ attached' = attached
          /\ \A el \in Elements : elementListeners'[el].map = elementListeners[el].map
          /\ listenerId' = listenerId]_vars

C23_Witness ==
  /\ lastEv.op = "remove" /\ ~lastEv.hit /\ lastEv.el # Null
  /\ Cardinality(elementListeners[lastEv.el].map) = 1
  /\ \E a \in attached[lastEv.el] :
       Matching(elementListeners[lastEv.el].map, a.event, a.handler) = {}
  /\ Cardinality(attached[lastEv.el]) = 2
  /\ detached = {}

(***************************************************************************)
(* C24.  An add, remove or removeAllForElement call on one element leaves  *)
(* the recorded entries and the listener list of every other element as    *)
(* they were.                                                              *)
(***************************************************************************)
C24_OtherElementsUntouched ==
  [][(lastEv'.op \in {"add", "remove", "removeAllForElement"} /\ lastEv'.el # Null) =>
       \A el \in Elements \ {lastEv'.el} :
         /\ elementListeners'[el] = elementListeners[el]
         /\ attached'[el] = attached[el]]_vars

C24_Witness ==
  /\ lastEv.op = "removeAllForElement" /\ lastEv.hit
  /\ \E el \in Elements \ {lastEv.el} :
       /\ elementListeners[el].map # {}
       /\ \E d \in detached, value \in elementListeners[el].map :
            /\ d.el = lastEv.el /\ d.ev = value.event /\ d.h = value.handler
            /\ AttachedFor(el, value.event, value.handler) # {}

C26_DebounceTrailing ==
  /\ [](deb.made /\ ~deb.immediate =>
          /\ Cardinality(deb.timers) <= 1
          /\ Len(deb.runs) + Cardinality(deb.timers) = deb.bursts)
  /\ [][deb'.op = "call" /\ ~deb'.immediate =>
          /\ deb'.runs = deb.runs
          /\ deb'.timers = {[id |-> deb'.calls, arg |-> deb'.arg]}]_vars
  /\ [][deb'.op = "timer" /\ ~deb'.immediate =>
          /\ deb'.tid = deb.calls
          /\ deb'.runs = Append(deb.runs, deb.lastArg)
          /\ deb'.timers = {}]_vars
  /\ [](deb.timers # {} => <>(deb.timers = {}))

C26_Witness ==
  /\ deb.made /\ ~deb.immediate
  /\ deb.op = "timer"
  /\ deb.calls = 3 /\ deb.bursts = 2
  /\ deb.runs = <<2, 1>>

(***************************************************************************)
(* C27.  Wrapped by debounce(func, wait, true), func runs on the leading   *)
(* edge: a call runs func, synchronously and with its own arguments,       *)
(* exactly when no timer is pending; a call made while a timer is pending  *)
(* runs nothing; every call replaces the pending timer by a new one; and   *)
(* the timer never runs func.                                              *)
(***************************************************************************)
C27_DebounceLeading ==
  /\ [][deb'.op = "call" /\ deb'.immediate =>
          /\ deb'.ran <=> deb.timers = {}
          /\ deb'.runs = IF deb.timers = {} THEN Append(deb.runs, deb'.arg) ELSE deb.runs
          /\ deb'.timers = {[id |-> deb'.calls, arg |-> deb'.arg]}
          /\ deb'.timers \cap deb.timers = {}]_vars
  /\ [][deb'.op = "timer" /\ deb'.immediate =>
          deb'.runs = deb.runs /\ ~deb'.ran]_vars

C27_Witness ==
  /\ deb.made /\ deb.immediate
  /\ deb.op = "call" /\ ~deb.ran
  /\ deb.calls = 3
  /\ deb.runs = <<1>>
  /\ Cardinality(deb.timers) = 1

(***************************************************************************)
(* C28.  Wrapped by rafThrottle, a function keeps at most one frame        *)
(* requested at any time; a frame that runs, runs callback once, with the  *)
(* arguments of the most recent call; a frame handed to cancel() never     *)
(* runs, cancel() leaves no frame requested and runs nothing; and a call   *)
(* runs nothing itself and leaves exactly one frame requested, a new one   *)
(* when none was.                                                          *)
(***************************************************************************)
C28_RafOneFrameLastArgs ==
  /\ [](Cardinality(raf.frames) <= 1)
  /\ [][raf'.op = "frame" =>
          /\ raf'.runs = Append(raf.runs, raf.lastArgs)
          /\ raf'.tid \notin raf.cancelled
          /\ raf'.frames = {}]_vars
  /\ [][raf'.op = "call" =>
          /\ raf'.lastArgs = raf'.arg
          /\ raf'.runs = raf.runs
          /\ Cardinality(raf'.frames) = 1
          /\ raf.frames = {} => raf'.frames \cap raf.cancelled = {}]_vars
  /\ [][raf'.op = "cancel" =>
          /\ raf'.frames = {}
          /\ raf'.runs = raf.runs]_vars
  /\ [][raf'.op # "call" => raf'.lastArgs = raf.lastArgs]_vars

C28_Witness ==
  /\ raf.op = "frame"
  /\ raf.cancelled # {}
  /\ raf.calls = 3
  /\ raf.runs = <<2>>

(***************************************************************************)
(* C29.  Every querySelector(selector) of the cache returns what           *)
(* document.querySelector(selector) returned at the first querySelector of *)
(* that selector since the selector was last cleared, and every            *)
(* getElementById(id) what document.getElementById(id) returned at the     *)
(* first getElementById of that id since it was last cleared, whichever    *)
(* strings the two methods are called with and in whichever order.         *)
(***************************************************************************)
C29_EachQueryUnderItsOwn ==
  /\ dom.op = "querySelector" => dom.ret = dom.selRef[dom.key]
  /\ dom.op = "getElementById" => dom.ret = dom.idRef[dom.key]

(***************************************************************************)
(* C30.  calculateInterestRate returns '' for a missing amount and for a   *)
(* zero amount; for any other amount it returns the tier of the amount,    *)
(* 10 from 300,000,000, 11 from 100,000,000, 11.5 from 50,000,000 and 12   *)
(* below; and of two amounts with a rate, the larger never has the higher  *)
(* rate.  An amount is a number, or a string that spells an integer in     *)
(* decimal digits.                                                         *)
(***************************************************************************)
C30_IsAmount(x) ==
  \/ x.kind \in {"number", "huge"}
  \/ /\ x.kind = "string"
     /\ \E n \in Numbers : x.text = IntToString(n)

C30_IsZero(x) ==
  \/ x.kind = "number" /\ x.n = 0
  \/ x.kind = "string" /\ x.text = IntToString(0)

C30_AtLeast(x, limit) ==
  \/ x.kind = "huge"
  \/ x.kind = "number" /\ x.n >= limit
  \/ x.kind = "string" /\ \E n \in Numbers : x.text = IntToString(n) /\ n >= limit

C30_Tier(x) ==
  IF C30_AtLeast(x, 300000000) THEN Rate(100)
  ELSE IF C30_AtLeast(x, 100000000) THEN Rate(110)
  ELSE IF C30_AtLeast(x, 50000000) THEN Rate(115)
  ELSE Rate(120)

C30_NoLarger(x, y) == \A limit \in Numbers : C30_AtLeast(x, limit) => C30_AtLeast(y, limit)

C30_RateTiers ==
  loan.op = "rate" =>
    LET x == loan.cur.input
        y == loan.prev.input
    IN
    /\ (x.kind = "undefined" \/ (C30_IsAmount(x) /\ C30_IsZero(x))) =>
          loan.cur.out = EmptyRate
    /\ (C30_IsAmount(x) /\ ~C30_IsZero(x)) => loan.cur.out = C30_Tier(x)
    /\ (/\ C30_IsAmount(x) /\ ~C30_IsZero(x)
        /\ C30_IsAmount(y) /\ ~C30_IsZero(y)
        /\ C30_NoLarger(y, x)) => loan.cur.out.tenths <= loan.prev.out.tenths

(***************************************************************************)
(* C31.  A name that was unloaded, with no loadScript call made for it     *)
(* since, is not in the cache: isLoaded(name) is false from the unload     *)
(* until the next loadScript(name, ...) call, whatever a script injected   *)
(* before the unload does in between.                                      *)
(***************************************************************************)
C31_UnloadedStaysUnloaded ==
  \A n \in Names : n \in last.since => ~IsLoaded(n)

(***************************************************************************)
(* C32.  With the manager as the only code that touches the elements'      *)
(* listeners, after any add, remove, removeAllForElement and dispatch,     *)
(* once listeners included: an entry for (element, event, handler) is      *)
(* recorded if and only if that handler is attached to the element.        *)
(***************************************************************************)
C32_EntryIffAttached ==
  \A el \in Elements, ev \in Events, h \in Handlers :
    Matching(elementListeners[el].map, ev, h) # {} <=> AttachedFor(el, ev, h) # {}

(***************************************************************************)
(* C33.  An add of a triple (element, event, handler) that was taken off   *)
(* through remove or removeAllForElement, and not added since, leaves the  *)
(* handler attached exactly once and recorded in exactly one entry.        *)
(***************************************************************************)
C33_AddAfterRemoval ==
  [][(lastEv'.op = "add" /\ lastEv'.el # Null) =>
       \A el \in CoreElements, ev \in Events, h \in Handlers :
         ((\E d \in detached : d.el = el /\ d.ev = ev /\ d.h = h)
            /\ \E o \in Options : Add(el, ev, h, o)) =>
           /\ Cardinality({a \in attached'[el] : a.event = ev /\ a.handler = h}) = 1
           /\ Cardinality(Matching(elementListeners'[el].map, ev, h)) = 1]_vars

C33_Witness ==
  /\ lastEv.op = "add" /\ lastEv.el = "btn" /\ ~lastEv.hit
  /\ listenerId = 2
  /\ detached = {}
  /\ \E value \in elementListeners["btn"].map :
       /\ elementListeners["btn"].map = {value}
       /\ value.key[2] = 1
       /\ Cardinality(AttachedFor("btn", value.event, value.handler)) = 1

(***************************************************************************)
(* C34.  When the callback scheduled by preload(key) runs for a key that   *)
(* names no loader, be it a missing property or another method of the      *)
(* loader, both Maps stay as they were, no script is injected, no          *)
(* loadScript call is made and no exception is thrown.                     *)
(***************************************************************************)
C34_NonLoaderKeyIsHarmless ==
  [][(last'.op = "idle" /\ ~IsLoader(last'.name)) =>
       /\ loadedLibraries' = loadedLibraries
       /\ loadingPromises' = loadingPromises
       /\ scripts' = scripts
       /\ ncalls' = ncalls
       /\ uncaught' = uncaught]_vars

(***************************************************************************)
(* C35.  Right after renderCanvas has drawn 'contractCanvas' or            *)
(* 'disbursementCanvas' for a data object, the item stored under           *)
(* 'userData' holds, in contractImageUrl or disbursementImageUrl, the URL  *)
(* that was just generated and put into that data object, whichever object *)
(* the caller passed.                                                      *)
(***************************************************************************)
C35_StoredUrlIsGeneratedUrl ==
  cnv.op = "drawn" =>
    /\ cnv.item.stored
    /\ cnv.canvasId = "contractCanvas" =>
          /\ cnv.heap[cnv.data].contractImageUrl = cnv.url
          /\ cnv.item.data.contractImageUrl = cnv.url
    /\ cnv.canvasId = "disbursementCanvas" =>
          /\ cnv.heap[cnv.data].disbursementImageUrl = cnv.url
          /\ cnv.item.data.disbursementImageUrl = cnv.url

====
